---- MODULE Spec2Model ----
(***************************************************************************)
(* Reservation scheduling core of the lab equipment reservation system:    *)
(* the create / confirm / cancel handlers over the relational store, with  *)
(* the wall clock as an explicit variable.  Timestamps are milliseconds    *)
(* since the epoch, as JavaScript Date values are.                         *)
(***************************************************************************)
EXTENDS Integers, Sequences, FiniteSets, TLC

VARIABLES
    now,            \* the server clock, new Date().getTime()
    equipment,      \* Equipment table: id -> [labId, status]
    reservations,   \* Reservation table with its ReservationEquipment links; id = index
    last,           \* the request handled by the latest step and its response
    inflight        \* concurrently running handlers: process -> position and locals

vars == <<now, equipment, reservations, last, inflight>>

---------------------------------------------------------------------------
(* Bounds of the model *)

MaxRes == 2         \* reservations the store may hold
MaxBlock == 3       \* the clock and the requested times range over blocks 0..MaxBlock

---------------------------------------------------------------------------
(* Program constants *)

MaxHours == 8
MsPerSecond == 1000
MsPerMinute == 1000 * 60
MsPerHour == 1000 * 60 * 60
BlockMinutes == {0, 15, 30, 45}
BlockMs == 15 * MsPerMinute
(* no status filter in the conflict queries *)
ActiveStatuses_All == {"PENDING", "CONFIRMED", "IN_PROGRESS", "CANCELLED"}
ActiveStatuses == {"PENDING", "CONFIRMED", "IN_PROGRESS"}

(* Users of the seed: one per role.  NoUser is a request without a session. *)
NoUser == 0
Users == {1, 2, 3}
role(u) == CASE u = 1 -> "STUDENT" [] u = 2 -> "INSTRUCTOR" [] u = 3 -> "ADMIN"
                [] OTHER -> "NONE"

isAdmin(u) == role(u) = "ADMIN"

(* Equipment of the seed: items 1 and 2 share lab 1, item 3 is in lab 2. *)
SeedEquipment == (1 :> [labId |-> 1, status |-> "OPERATIONAL"])
              @@ (2 :> [labId |-> 1, status |-> "OPERATIONAL"])
              @@ (3 :> [labId |-> 2, status |-> "OPERATIONAL"])
UnknownEquipment == 9

---------------------------------------------------------------------------
(* Date arithmetic (UTC) *)

getMilliseconds(t) == t % MsPerSecond
getSeconds(t) == (t \div MsPerSecond) % 60
getMinutes(t) == (t \div MsPerMinute) % 60
MakeTime(h, m, s, ms) == ((h * 60 + m) * 60 + s) * MsPerSecond + ms
BlockTime(b) == b * BlockMs

isValidBlock_NoMillis(t) ==
    /\ getMinutes(t) \in BlockMinutes
    /\ getSeconds(t) = 0

isValidBlock(t) ==
    /\ getMinutes(t) \in BlockMinutes
    /\ getSeconds(t) = 0
    /\ getMilliseconds(t) = 0

---------------------------------------------------------------------------
(* Store queries *)

Range(s) == {s[i] : i \in DOMAIN s}
ReservationIds == DOMAIN reservations
MissingTime == -1

(* prisma.equipment.findMany({ where: { id: { in: equipmentIds } } }) *)
FindEquipment(eq, ids) == {e \in DOMAIN eq : e \in Range(ids)}

(* the reservation filter shared by both conflict queries *)
(* closed intervals: windows that only touch count as overlapping *)
OverlapsActive_Closed(r, start, end) ==
    /\ r.startTime <= end
    /\ r.endTime >= start
    /\ r.status \in {"PENDING", "CONFIRMED", "IN_PROGRESS"}

OverlapsActive(r, start, end) ==
    /\ r.startTime < end
    /\ r.endTime > start
    /\ r.status \in ActiveStatuses

(* findFirst on reservationEquipment where equipment.labId = labId *)
(* the lab-wide query left out: only the requested items are looked up *)
LabConflict_Never(eq, res, labId, start, end) == FALSE

LabConflict(eq, res, labId, start, end) ==
    \E i \in DOMAIN res : \E e \in Range(res[i].links) :
        /\ e \in DOMAIN eq
        /\ eq[e].labId = labId
        /\ OverlapsActive(res[i], start, end)

(* findFirst on reservationEquipment where equipmentId in equipmentIds *)
EquipmentConflict(res, ids, start, end) ==
    \E i \in DOMAIN res : \E e \in Range(res[i].links) :
        /\ e \in Range(ids)
        /\ OverlapsActive(res[i], start, end)

---------------------------------------------------------------------------
(* Requests and responses *)

Pass == [code |-> 0, msg |-> ""]
Ok == [code |-> 200, msg |-> "OK"]
Error(code, msg) == [code |-> code, msg |-> msg]

NoBody == [equipmentIds |-> <<>>, startTime |-> MissingTime,
           endTime |-> MissingTime, purpose |-> ""]
Body(ids, start, end, purpose) ==
    [equipmentIds |-> ids, startTime |-> start, endTime |-> end, purpose |-> purpose]

(* what a handler did: the request, the response, the number of store writes *)
(* it issued and the stored status of its target before it ran               *)
Handled(op, user, id, body, resp, writes, prior) ==
    [op |-> op, user |-> user, id |-> id, body |-> body,
     code |-> resp.code, msg |-> resp.msg, writes |-> writes, prior |-> prior]
NoRequest == Handled("none", NoUser, 0, NoBody, Pass, 0, "NONE")

---------------------------------------------------------------------------
(* POST /api/reservations *)

ExceedsMaxDuration_Inclusive(start, end) ==
    end - start >= MaxHours * MsPerHour

(* (end.getTime() - start.getTime()) / (1000 * 60 * 60) > 8: the quotient of *)
(* two millisecond counts exceeds 8 exactly when the difference exceeds the  *)
(* milliseconds of 8 hours                                                   *)
ExceedsMaxDuration(start, end) ==
    end - start > MaxHours * MsPerHour

InitialStatus_AutoConfirm(user) ==
    IF role(user) = "INSTRUCTOR" THEN "PENDING" ELSE "CONFIRMED"

InitialStatus(user) ==
    IF role(user) = "INSTRUCTOR" THEN "PENDING" ELSE "PENDING"

(* the checks made before the store is read *)
ValidateRequest(user, body, t) ==
    IF user = NoUser THEN Error(401, "Unauthorized")
    ELSE IF \/ body.equipmentIds = <<>>
            \/ body.startTime = MissingTime
            \/ body.endTime = MissingTime
            \/ body.purpose = ""
        THEN Error(400, "Missing required fields")
    ELSE IF ~isValidBlock(body.startTime) \/ ~isValidBlock(body.endTime)
        THEN Error(400, "Times must be on 15 minute blocks")
    ELSE IF body.endTime <= body.startTime
        THEN Error(400, "End time must be after start time")
    ELSE IF ExceedsMaxDuration(body.startTime, body.endTime)
        THEN Error(400, "Reservation cannot exceed 8 hours")
    ELSE IF body.startTime < t
        THEN Error(400, "Reservation must be in the future")
    ELSE IF role(user) \notin {"STUDENT", "INSTRUCTOR", "ADMIN"}
        THEN Error(403, "Forbidden")
    ELSE Pass

(* equipmentList[0].labId; only used when the list is not empty *)
RequestLab(eq, ids) ==
    LET found == FindEquipment(eq, ids)
    IN  eq[CHOOSE e \in found : \A f \in found : e <= f].labId

(* the equipment lookup and the same-lab check *)
ResolveEquipment(eq, ids) ==
    LET found == FindEquipment(eq, ids)
    IN  IF Cardinality(found) # Len(ids)
            THEN Error(400, "One or more equipment IDs are invalid")
        ELSE IF \E e \in found : eq[e].labId # RequestLab(eq, ids)
            THEN Error(400, "All equipment must be in the same lab")
        ELSE Pass

CheckLab(eq, res, labId, body) ==
    IF LabConflict(eq, res, labId, body.startTime, body.endTime)
        THEN Error(409, "There is a conflicting reservation in this lab for the selected time")
        ELSE Pass

CheckEquipment(res, body) ==
    IF EquipmentConflict(res, body.equipmentIds, body.startTime, body.endTime)
        THEN Error(409, "One or more equipment items are already reserved for the selected time")
        ELSE Pass

(* prisma.reservation.create with the nested equipment links *)
NewReservation(user, body) ==
    [userId |-> user,
     startTime |-> body.startTime,
     endTime |-> body.endTime,
     purpose |-> body.purpose,
     status |-> InitialStatus(user),
     links |-> [i \in DOMAIN body.equipmentIds |-> body.equipmentIds[i]]]

(* the response of the whole handler run against one store snapshot *)
CreateResponse(user, body, t, eq, res) ==
    LET v == ValidateRequest(user, body, t)
    IN  IF v # Pass THEN v
        ELSE LET q == ResolveEquipment(eq, body.equipmentIds)
             IN  IF q # Pass THEN q
                 ELSE LET l == CheckLab(eq, res, RequestLab(eq, body.equipmentIds), body)
                      IN  IF l # Pass THEN l
                          ELSE LET c == CheckEquipment(res, body)
                               IN  IF c # Pass THEN c ELSE Ok

(* the insert issued before the conflict checks are evaluated *)
CreateReservation_InsertBeforeChecks(user, body) ==
    LET resp == CreateResponse(user, body, now, equipment, reservations)
        resolved == /\ ValidateRequest(user, body, now) = Pass
                    /\ ResolveEquipment(equipment, body.equipmentIds) = Pass
    IN  /\ resolved => Len(reservations) < MaxRes
        /\ reservations' = IF resolved THEN Append(reservations, NewReservation(user, body))
                                        ELSE reservations
        /\ last' = Handled("create", user, IF resp = Ok THEN Len(reservations) + 1 ELSE 0,
                           body, resp, IF resolved THEN 1 ELSE 0, "NONE")
        /\ UNCHANGED <<now, equipment, inflight>>

CreateReservation(user, body) ==
    LET resp == CreateResponse(user, body, now, equipment, reservations)
    IN  /\ resp = Ok => Len(reservations) < MaxRes
        /\ IF resp = Ok
              THEN /\ reservations' = Append(reservations, NewReservation(user, body))
                   /\ last' = Handled("create", user, Len(reservations) + 1, body, resp, 1, "NONE")
              ELSE /\ reservations' = reservations
                   /\ last' = Handled("create", user, 0, body, resp, 0, "NONE")
        /\ UNCHANGED <<now, equipment, inflight>>

---------------------------------------------------------------------------
(* PUT /api/reservations/:id/confirm and PUT /api/reservations/:id/cancel *)

CanConfirm_SelfApproval(user, r) ==
    \/ role(user) = "INSTRUCTOR"
    \/ isAdmin(user)

CanConfirm(user, r) ==
    \/ role(user) = "INSTRUCTOR" /\ r.userId # user
    \/ isAdmin(user)

CanCancel_NoOwner(user, r) ==
    \/ isAdmin(user)
    \/ role(user) = "INSTRUCTOR" /\ r.userId # user

CanCancel(user, r) ==
    \/ isAdmin(user)
    \/ role(user) = "INSTRUCTOR" /\ r.userId # user
    \/ r.userId = user

FindReservation_ClosedEnd(user, id, t, res) ==
    IF user = NoUser THEN Error(401, "Unauthorized")
    ELSE IF id \notin DOMAIN res THEN Error(404, "Reservation not found")
    ELSE IF t >= res[id].endTime THEN Error(400, "Reservation is immutable")
    ELSE Pass

(* the checks both handlers make before the authorization check *)
FindReservation(user, id, t, res) ==
    IF user = NoUser THEN Error(401, "Unauthorized")
    ELSE IF id \notin DOMAIN res THEN Error(404, "Reservation not found")
    ELSE IF t > res[id].endTime THEN Error(400, "Reservation is immutable")
    ELSE Pass

ConfirmResponse(user, id, t, res) ==
    LET f == FindReservation(user, id, t, res)
    IN  IF f # Pass THEN f
        ELSE IF CanConfirm(user, res[id]) THEN Ok
        ELSE Error(403, "Forbidden")

CancelResponse(user, id, t, res) ==
    LET f == FindReservation(user, id, t, res)
    IN  IF f # Pass THEN f
        ELSE IF CanCancel(user, res[id]) THEN Ok
        ELSE Error(403, "Forbidden")

(* an updateMany over the owner's reservations in place of the update by id *)
UpdateStatus_OfOwner(res, id, status) ==
    [i \in DOMAIN res |->
        IF res[i].userId = res[id].userId THEN [res[i] EXCEPT !.status = status] ELSE res[i]]

(* prisma.reservation.update({ where: { id }, data: { status } }) *)
UpdateStatus(res, id, status) == [res EXCEPT ![id].status = status]

StoredStatus(res, id) == IF id \in DOMAIN res THEN res[id].status ELSE "NONE"

ConfirmReservation(user, id) ==
    LET resp == ConfirmResponse(user, id, now, reservations)
    IN  /\ reservations' = IF resp = Ok THEN UpdateStatus(reservations, id, "CONFIRMED")
                                        ELSE reservations
        /\ last' = Handled("confirm", user, id, NoBody, resp,
                           IF resp = Ok THEN 1 ELSE 0, StoredStatus(reservations, id))
        /\ UNCHANGED <<now, equipment, inflight>>

CancelReservation(user, id) ==
    LET resp == CancelResponse(user, id, now, reservations)
    IN  /\ reservations' = IF resp = Ok THEN UpdateStatus(reservations, id, "CANCELLED")
                                        ELSE reservations
        /\ last' = Handled("cancel", user, id, NoBody, resp,
                           IF resp = Ok THEN 1 ELSE 0, StoredStatus(reservations, id))
        /\ UNCHANGED <<now, equipment, inflight>>

---------------------------------------------------------------------------
(* The clock *)

Tick ==
    /\ now < BlockTime(MaxBlock)
    /\ now' = now + BlockMs
    /\ last' = NoRequest
    /\ UNCHANGED <<equipment, reservations, inflight>>

---------------------------------------------------------------------------
(* Sequential service: one request at a time *)

Procs == {1, 2}
Idle == [pc |-> "idle", op |-> "none", user |-> NoUser, id |-> 0, body |-> NoBody,
         labId |-> 0, prior |-> "NONE", code |-> 0, msg |-> ""]

Init ==
    /\ now = 0
    /\ equipment = SeedEquipment
    /\ reservations = <<>>
    /\ last = NoRequest
    /\ inflight = [p \in Procs |-> Idle]

(* requests of the lifecycle runs: the window of block 1 on item 1 *)
LifecycleBodies ==
    {Body(<<e>>, BlockTime(b), BlockTime(b + 1), "lab work") :
        e \in {1}, b \in {1}}
Actors == Users \cup {NoUser}

Next ==
    \/ \E u \in Users, b \in LifecycleBodies : CreateReservation(u, b)
    \/ \E u \in Actors, id \in 1..MaxRes : ConfirmReservation(u, id)
    \/ \E u \in Actors, id \in 1..MaxRes : CancelReservation(u, id)
    \/ Tick

Spec == Init /\ [][Next]_vars

---------------------------------------------------------------------------
(* Create requests of every shape against a store that only grows *)

LongestBlocks == (MaxHours * 60) \div 15
GridTimes ==
    {BlockTime(1), BlockTime(2), BlockTime(1 + LongestBlocks), BlockTime(2 + LongestBlocks)}
OffGridTimes ==
    {BlockTime(1) + 1, BlockTime(1) + MsPerSecond, BlockTime(1) + MsPerMinute, MissingTime}
ValidationIds ==
    {<<>>, <<1>>, <<3>>, <<1, 2>>, <<1, 1>>, <<1, 3>>, <<UnknownEquipment>>,
     <<1, UnknownEquipment>>}
ValidationRequests ==
    {<<1, Body(<<1>>, s, e, "lab work")>> : s \in GridTimes, e \in GridTimes}
    \cup {<<1, Body(<<1>>, s, BlockTime(2), "lab work")>> : s \in OffGridTimes}
    \cup {<<1, Body(<<1>>, BlockTime(1), e, "lab work")>> : e \in OffGridTimes}
    \cup {<<1, Body(ids, BlockTime(1), BlockTime(2), "lab work")>> : ids \in ValidationIds}
    \cup {<<1, Body(<<1>>, BlockTime(1), BlockTime(2), "")>>}
    \cup {<<u, Body(ids, BlockTime(2), BlockTime(2 + LongestBlocks), "lab work")>> :
              u \in Actors, ids \in {<<1>>, <<1, 2>>}}

NextValidation ==
    \/ \E q \in ValidationRequests : CreateReservation(q[1], q[2])
    \/ Tick

SpecValidation == Init /\ [][NextValidation]_vars

---------------------------------------------------------------------------
(* Bookings of the three items over touching and overlapping windows, *)
(* confirmed and cancelled by the administrator                       *)

Student == 1
Admin == 3
BookingWindows == {<<1, 2>>, <<2, 3>>, <<1, 3>>}
BookingBodies ==
    {Body(<<e>>, BlockTime(w[1]), BlockTime(w[2]), "lab work") :
        e \in DOMAIN SeedEquipment, w \in BookingWindows}

NextBooking ==
    \/ \E b \in BookingBodies : CreateReservation(Student, b)
    \/ \E id \in 1..MaxRes : ConfirmReservation(Admin, id)
    \/ \E id \in 1..MaxRes : CancelReservation(Admin, id)

SpecBooking == Init /\ [][NextBooking]_vars

---------------------------------------------------------------------------
(* Concurrent service: each handler runs to its next store operation, and  *)
(* the store operations of different requests interleave.                  *)

Finish(p, resp) ==
    [inflight EXCEPT ![p].pc = "done", ![p].code = resp.code, ![p].msg = resp.msg]
Goto(p, pc) == [inflight EXCEPT ![p].pc = pc]

(* the handler up to and including equipment.findMany *)
CreateBegin(p, user, body) ==
    LET v == ValidateRequest(user, body, now)
        q == ResolveEquipment(equipment, body.equipmentIds)
        started == [inflight EXCEPT ![p].op = "create", ![p].user = user, ![p].body = body]
    IN  /\ inflight[p].pc = "idle"
        /\ inflight' =
              IF v # Pass THEN [started EXCEPT ![p].pc = "done", ![p].code = v.code,
                                               ![p].msg = v.msg]
              ELSE IF q # Pass THEN [started EXCEPT ![p].pc = "done", ![p].code = q.code,
                                                    ![p].msg = q.msg]
              ELSE [started EXCEPT ![p].pc = "checkLab",
                                   ![p].labId = RequestLab(equipment, body.equipmentIds)]
        /\ UNCHANGED <<now, equipment, reservations, last>>

(* reservationEquipment.findFirst of the lab *)
CreateCheckLab(p) ==
    LET l == CheckLab(equipment, reservations, inflight[p].labId, inflight[p].body)
    IN  /\ inflight[p].pc = "checkLab"
        /\ inflight' = IF l # Pass THEN Finish(p, l) ELSE Goto(p, "checkEquipment")
        /\ UNCHANGED <<now, equipment, reservations, last>>

(* reservationEquipment.findFirst of the requested equipment *)
CreateCheckEquipment(p) ==
    LET c == CheckEquipment(reservations, inflight[p].body)
    IN  /\ inflight[p].pc = "checkEquipment"
        /\ inflight' = IF c # Pass THEN Finish(p, c) ELSE Goto(p, "insert")
        /\ UNCHANGED <<now, equipment, reservations, last>>

(* reservation.create *)
CreateInsert(p) ==
    /\ inflight[p].pc = "insert"
    /\ reservations' = Append(reservations, NewReservation(inflight[p].user, inflight[p].body))
    /\ inflight' = [Finish(p, Ok) EXCEPT ![p].id = Len(reservations) + 1]
    /\ UNCHANGED <<now, equipment, last>>

RaceBodies ==
    {Body(<<e>>, BlockTime(w[1]), BlockTime(w[2]), "lab work") :
        e \in {1, 2}, w \in {<<1, 2>>, <<1, 3>>, <<2, 3>>}}

NextRace ==
    \/ \E p \in Procs, u \in Users, b \in RaceBodies : CreateBegin(p, u, b)
    \/ \E p \in Procs : CreateCheckLab(p)
    \/ \E p \in Procs : CreateCheckEquipment(p)
    \/ \E p \in Procs : CreateInsert(p)

SpecRace == Init /\ [][NextRace]_vars

(* C1: of two concurrent create requests for the same equipment with       *)
(* overlapping windows, exactly one succeeds and the other is answered 409; *)
(* both never succeed.                                                      *)
SameEquipmentOverlapping(a, b) ==
    /\ a.startTime < a.endTime
    /\ b.startTime < b.endTime
    /\ Range(a.equipmentIds) \cap Range(b.equipmentIds) # {}
    /\ a.startTime < b.endTime
    /\ b.startTime < a.endTime

ExactlyOneConcurrentCreateSucceeds ==
    \A p \in Procs : \A q \in Procs :
        (/\ p # q
         /\ inflight[p].pc = "done"
         /\ inflight[q].pc = "done"
         /\ SameEquipmentOverlapping(inflight[p].body, inflight[q].body))
        => /\ ~(inflight[p].code = 200 /\ inflight[q].code = 200)
           /\ {inflight[p].code, inflight[q].code} = {200, 409}

---------------------------------------------------------------------------
(* Properties of the sequential service *)

Overlap(a, b) == a.startTime < b.endTime /\ b.startTime < a.endTime
Labs(r) == {equipment[e].labId : e \in Range(r.links) \cap DOMAIN equipment}
Booked(r) == r.status \in {"PENDING", "CONFIRMED"}
Target == reservations[last.id]
OnReservation(op) == last.op = op /\ last.user # NoUser /\ last.id \in ReservationIds
Elapsed(r) == now > r.endTime

(* C2: no two distinct PENDING or CONFIRMED reservations linked to equipment *)
(* of the same lab have overlapping windows.                                 *)
NoDoubleBookingInLab ==
    \A i \in ReservationIds : \A j \in ReservationIds :
        (/\ i # j
         /\ Booked(reservations[i])
         /\ Booked(reservations[j])
         /\ Labs(reservations[i]) \cap Labs(reservations[j]) # {})
        => ~Overlap(reservations[i], reservations[j])

(* C3: a reservation whose stored status is CANCELLED keeps that status in *)
(* every later step.                                                       *)
CancelledIsFinal ==
    [][\A i \in ReservationIds :
          reservations[i].status = "CANCELLED" => reservations'[i].status = "CANCELLED"]_vars

(* C4: a confirm request writes the status only when the stored status was *)
(* PENDING; on CONFIRMED or CANCELLED it performs no write.                *)
ConfirmWritesOnlyFromPending ==
    OnReservation("confirm") =>
        /\ (last.writes > 0 \/ last.code = 200) => last.prior = "PENDING"
        /\ last.prior \in {"CONFIRMED", "CANCELLED"} => last.writes = 0

(* C5: on a reservation that has not elapsed, confirm succeeds only for an  *)
(* ADMIN or for an INSTRUCTOR who is not the creator; a STUDENT and an      *)
(* INSTRUCTOR on their own reservation get 403 and the status is unchanged. *)
ConfirmAuthorization ==
    (OnReservation("confirm") /\ ~Elapsed(Target)) =>
        LET own == Target.userId = last.user
            r == role(last.user)
        IN  /\ last.code = 200 => (r = "ADMIN" \/ (r = "INSTRUCTOR" /\ ~own))
            /\ r = "ADMIN" => last.code = 200 /\ Target.status = "CONFIRMED"
            /\ (r = "STUDENT" \/ (r = "INSTRUCTOR" /\ own)) =>
                   /\ last.code = 403
                   /\ last.writes = 0
                   /\ Target.status = last.prior

ConfirmRefusedToOwnInstructor ==
    /\ OnReservation("confirm")
    /\ ~Elapsed(Target)
    /\ role(last.user) = "INSTRUCTOR"
    /\ Target.userId = last.user
    /\ last.code = 403

ElapsedIsImmutable ==
    /\ [](\A op \in {"confirm", "cancel"} :
            OnReservation(op) =>
                /\ (last.code = 400 /\ last.msg = "Reservation is immutable")
                        <=> Elapsed(Target)
                /\ Elapsed(Target) => last.writes = 0 /\ Target.status = last.prior)
    /\ [][\A i \in ReservationIds :
            Elapsed(reservations[i]) => reservations'[i].status = reservations[i].status]_vars

ElapsedRefusedToAdmin ==
    /\ OnReservation("cancel")
    /\ Elapsed(Target)
    /\ role(last.user) = "ADMIN"
    /\ last.code = 400

Created == last.op = "create" /\ last.code = 200
Requested == last.op = "create" /\ last.user # NoUser
FieldsPresent ==
    /\ last.body.equipmentIds # <<>>
    /\ last.body.startTime # MissingTime
    /\ last.body.endTime # MissingTime
    /\ last.body.purpose # ""
OnGrid(t) == t >= 0 /\ t % BlockMs = 0

(* C8: a successful create stores the new reservation as PENDING whatever the *)
(* role of its creator, with one equipment link per requested equipment id.   *)
CreatedIsPending ==
    Created =>
        /\ last.id = Len(reservations)
        /\ Target.status = "PENDING"
        /\ Target.userId = last.user
        /\ last.writes = 1
        /\ Len(Target.links) = Len(last.body.equipmentIds)
        /\ Range(Target.links) = Range(last.body.equipmentIds)
        /\ Cardinality(Range(Target.links)) = Len(last.body.equipmentIds)

CreatedByAdminWithTwoItems ==
    /\ Created
    /\ role(last.user) = "ADMIN"
    /\ Len(Target.links) = 2

(* C9: isValidBlock(t) holds iff the minute of t is 0, 15, 30 or 45 and its *)
(* seconds and milliseconds are 0; create answers 400 to every request      *)
(* whose start or end is not such a time.                                   *)
GridAlignment ==
    /\ \A h \in {0, 1, 23}, m \in {0, 1, 14, 15, 16, 30, 31, 45, 59},
          s \in {0, 1, 59}, ms \in {0, 1, 999} :
            isValidBlock(MakeTime(h, m, s, ms))
                <=> (m \in {0, 15, 30, 45} /\ s = 0 /\ ms = 0)
    /\ (/\ Requested
        /\ FieldsPresent
        /\ ~(OnGrid(last.body.startTime) /\ OnGrid(last.body.endTime)))
        => /\ last.code = 400
           /\ last.writes = 0

OffGridByMillisecondRefused ==
    /\ Requested
    /\ OnGrid(last.body.startTime)
    /\ last.body.endTime = BlockTime(1) + 1
    /\ last.code = 400
    /\ last.msg = "Times must be on 15 minute blocks"

(* C10: create answers 400 to every grid-aligned range with end <= start or *)
(* longer than 8 hours, and never refuses a range of 0 < end - start <= 8   *)
(* hours for its duration.                                                  *)
DurationBound ==
    (/\ Requested
     /\ FieldsPresent
     /\ OnGrid(last.body.startTime)
     /\ OnGrid(last.body.endTime))
    => LET d == last.body.endTime - last.body.startTime
       IN  /\ (d <= 0 \/ d > 8 * 60 * MsPerMinute) => last.code = 400 /\ last.writes = 0
           /\ (d > 0 /\ d <= 8 * 60 * MsPerMinute) =>
                  last.msg \notin {"End time must be after start time",
                                   "Reservation cannot exceed 8 hours"}

EightHoursAccepted ==
    /\ Created
    /\ last.body.endTime - last.body.startTime = 8 * 60 * MsPerMinute

(* C11: create accepts a request only if its start is strictly after the  *)
(* instant of validation: every request with start <= now is answered 400 *)
(* and no stored reservation starts at or before the instant it was       *)
(* validated.                                                             *)
StartStrictlyInFuture ==
    (/\ Requested
     /\ FieldsPresent
     /\ last.body.startTime <= now)
    => /\ last.code = 400
       /\ last.writes = 0

(* C12: a create that fails, for whatever reason, leaves the Reservation  *)
(* table and its equipment links exactly as they were before the request. *)
FailedCreateWritesNothing ==
    [][(last'.op = "create" /\ last'.code # 200)
          => (reservations' = reservations /\ equipment' = equipment)]_vars

ConflictRefusedOnBookedStore ==
    /\ last.op = "create"
    /\ last.code = 409
    /\ Len(reservations) > 0

---------------------------------------------------------------------------
(* Properties of the conflict checks *)

PriorStore ==
    IF Created THEN SubSeq(reservations, 1, Len(reservations) - 1) ELSE reservations
OtherwiseValid ==
    /\ last.op = "create"
    /\ ValidateRequest(last.user, last.body, now) = Pass
    /\ ResolveEquipment(equipment, last.body.equipmentIds) = Pass
RequestedLab == equipment[last.body.equipmentIds[1]].labId
InRequestedLab(r) == RequestedLab \in Labs(r)
OnRequestedEquipment(r) == Range(r.links) \cap Range(last.body.equipmentIds) # {}
OverlapsRequest(r) ==
    r.startTime < last.body.endTime /\ r.endTime > last.body.startTime
TouchesRequest(r) ==
    r.endTime = last.body.startTime \/ r.startTime = last.body.endTime

(* C13: with a PENDING or CONFIRMED reservation [s,e) on equipment E, an     *)
(* otherwise valid create for E with window [s',e') is answered 409 iff      *)
(* s < e' and e > s': every overlapping one forces 409, and a 409 always has *)
(* an overlapping booked reservation behind it, so a window that only        *)
(* touches the existing one is never the reason of a conflict.               *)
HalfOpenConflict ==
    OtherwiseValid =>
        /\ \A i \in DOMAIN PriorStore :
              (/\ Booked(PriorStore[i])
               /\ OnRequestedEquipment(PriorStore[i])
               /\ OverlapsRequest(PriorStore[i]))
              => last.code = 409
        /\ last.code = 409 =>
              \E i \in DOMAIN PriorStore :
                  /\ Booked(PriorStore[i])
                  /\ InRequestedLab(PriorStore[i])
                  /\ OverlapsRequest(PriorStore[i])
        /\ last.code \in {200, 409}

TouchingRequestAccepted ==
    /\ OtherwiseValid
    /\ Created
    /\ \E i \in DOMAIN PriorStore :
          /\ Booked(PriorStore[i])
          /\ OnRequestedEquipment(PriorStore[i])
          /\ TouchesRequest(PriorStore[i])

(* C14: an otherwise valid create is answered 409 whenever a PENDING or    *)
(* CONFIRMED reservation linked to any equipment of the requested lab, the *)
(* items that were not requested included, overlaps the requested window.  *)
LabWideConflict ==
    OtherwiseValid =>
        \A i \in DOMAIN PriorStore :
            (/\ Booked(PriorStore[i])
             /\ InRequestedLab(PriorStore[i])
             /\ OverlapsRequest(PriorStore[i]))
            => /\ last.code = 409
               /\ last.writes = 0

RefusedForOtherItemOfLab ==
    /\ OtherwiseValid
    /\ last.code = 409
    /\ \E i \in DOMAIN PriorStore :
          /\ Booked(PriorStore[i])
          /\ InRequestedLab(PriorStore[i])
          /\ ~OnRequestedEquipment(PriorStore[i])
          /\ OverlapsRequest(PriorStore[i])
    /\ \A i \in DOMAIN PriorStore : ~OnRequestedEquipment(PriorStore[i])

(* C15: a CANCELLED reservation blocks nothing: an otherwise valid create  *)
(* whose window overlaps, in its lab, only CANCELLED reservations succeeds. *)
CancelledBlocksNothing ==
    (/\ OtherwiseValid
     /\ \A i \in DOMAIN PriorStore :
           (InRequestedLab(PriorStore[i]) /\ OverlapsRequest(PriorStore[i]))
           => PriorStore[i].status = "CANCELLED")
    => Created

CreatedOverCancelled ==
    /\ OtherwiseValid
    /\ Created
    /\ \E i \in DOMAIN PriorStore :
          /\ PriorStore[i].status = "CANCELLED"
          /\ OnRequestedEquipment(PriorStore[i])
          /\ OverlapsRequest(PriorStore[i])

---------------------------------------------------------------------------
(* Effective statuses, resolved when a record is read *)

(* the stored status returned at every instant *)
computeReservationStatus_StoredOnly(reservation, currentTime) == reservation.status

(* the window taken half-open: the end instant already counts as after *)
computeReservationStatus_HalfOpen(reservation, currentTime) ==
    IF reservation.status = "PENDING" \/ reservation.status = "CANCELLED"
    THEN reservation.status
    ELSE IF reservation.status = "CONFIRMED"
    THEN IF currentTime < reservation.startTime THEN "CONFIRMED"
         ELSE IF currentTime >= reservation.startTime /\ currentTime < reservation.endTime
              THEN "IN_PROGRESS"
              ELSE "COMPLETED"
    ELSE reservation.status

(* the last branch left out: a CONFIRMED reservation stays IN_PROGRESS *)
computeReservationStatus_NeverCompleted(reservation, currentTime) ==
    IF reservation.status = "PENDING" \/ reservation.status = "CANCELLED"
    THEN reservation.status
    ELSE IF reservation.status = "CONFIRMED"
    THEN IF currentTime < reservation.startTime THEN "CONFIRMED" ELSE "IN_PROGRESS"
    ELSE reservation.status

computeReservationStatus(reservation, currentTime) ==
    IF reservation.status = "PENDING" \/ reservation.status = "CANCELLED"
    THEN reservation.status
    ELSE IF reservation.status = "CONFIRMED"
    THEN IF currentTime < reservation.startTime THEN "CONFIRMED"
         ELSE IF currentTime >= reservation.startTime /\ currentTime <= reservation.endTime
              THEN "IN_PROGRESS"
              ELSE "COMPLETED"
    ELSE reservation.status

EquipmentStatuses == {"OPERATIONAL", "MAINTENANCE", "OUT_OF_ORDER"}
UserSettable == {"IN_USE", "AVAILABLE"}

(* the equipment row with the reservations it is linked to *)
WithReservationLinks(eq, res, e) ==
    [status |-> eq[e].status,
     reservationLinks |-> {res[i] : i \in {j \in DOMAIN res : e \in Range(res[j].links)}}]

(* every reservation in its window counts, whatever its status *)
computeEquipmentStatus_AnyStatus(item, currentTime) ==
    IF item.status = "MAINTENANCE" \/ item.status = "OUT_OF_ORDER"
    THEN item.status
    ELSE IF \E r \in item.reservationLinks :
                /\ r.startTime <= currentTime
                /\ r.endTime >= currentTime
         THEN "IN_USE"
         ELSE "AVAILABLE"

(* the end instant of a reservation no longer counts as in use *)
computeEquipmentStatus_HalfOpen(item, currentTime) ==
    IF item.status = "MAINTENANCE" \/ item.status = "OUT_OF_ORDER"
    THEN item.status
    ELSE IF \E r \in item.reservationLinks :
                /\ r.status = "CONFIRMED"
                /\ r.startTime <= currentTime
                /\ r.endTime > currentTime
         THEN "IN_USE"
         ELSE "AVAILABLE"

computeEquipmentStatus(item, currentTime) ==
    IF item.status = "MAINTENANCE" \/ item.status = "OUT_OF_ORDER"
    THEN item.status
    ELSE IF /\ item.reservationLinks # {}
            /\ \E r \in item.reservationLinks :
                  /\ r.status = "CONFIRMED"
                  /\ r.startTime <= currentTime
                  /\ r.endTime >= currentTime
         THEN "IN_USE"
         ELSE "AVAILABLE"

---------------------------------------------------------------------------
(* PUT /api/equipment/:id/status *)

HasReservationNow(user, e, t, res) ==
    \E i \in DOMAIN res :
        /\ e \in Range(res[i].links)
        /\ res[i].userId = user
        /\ res[i].startTime <= t
        /\ res[i].endTime >= t
        /\ res[i].status = "CONFIRMED"

StatusResponse(user, e, status, t, eq, res) ==
    IF user = NoUser THEN Error(401, "Unauthorized")
    ELSE IF status \notin EquipmentStatuses THEN Error(400, "Invalid status")
    ELSE IF e \notin DOMAIN eq THEN Error(404, "Equipment not found")
    ELSE IF isAdmin(user) THEN Ok
    ELSE IF status \notin UserSettable THEN Error(403, "Forbidden")
    ELSE IF ~HasReservationNow(user, e, t, res)
         THEN Error(403, "No valid reservation for this equipment at this time")
    ELSE Ok

UpdateEquipmentStatus(user, e, status) ==
    LET resp == StatusResponse(user, e, status, now, equipment, reservations)
    IN  /\ equipment' = IF resp = Ok THEN [equipment EXCEPT ![e].status = status]
                                     ELSE equipment
        /\ last' = Handled("status", user, e, NoBody, resp, IF resp = Ok THEN 1 ELSE 0,
                           IF e \in DOMAIN equipment THEN equipment[e].status ELSE "NONE")
        /\ UNCHANGED <<now, reservations, inflight>>

---------------------------------------------------------------------------
(* One item booked over a short and a long window while the clock runs and *)
(* the administrator takes the item in and out of service                  *)

StatusBodies ==
    {Body(<<1>>, BlockTime(1), BlockTime(e), "lab work") : e \in {2, 3}}

NextStatus ==
    \/ \E b \in StatusBodies : CreateReservation(Student, b)
    \/ \E id \in 1..MaxRes : ConfirmReservation(Admin, id)
    \/ \E id \in 1..MaxRes : CancelReservation(Admin, id)
    \/ \E u \in {Student, Admin}, s \in EquipmentStatuses : UpdateEquipmentStatus(u, 1, s)
    \/ Tick

SpecStatus == Init /\ [][NextStatus]_vars

(* the instants at which a record may be read: every block boundary of the *)
(* run and the millisecond before and after it                             *)
Instants == {BlockTime(b) + d : b \in 0..MaxBlock, d \in {-1, 0, 1}}

(* C16: computeReservationStatus returns PENDING for stored PENDING and    *)
(* CANCELLED for stored CANCELLED at every instant; for stored CONFIRMED   *)
(* it returns CONFIRMED when now < start, IN_PROGRESS when start < now <   *)
(* end, and COMPLETED when now > end.                                      *)
EffectiveReservationStatus ==
    \A i \in ReservationIds : \A t \in Instants :
        LET r == reservations[i]
            computed == computeReservationStatus(r, t)
        IN  /\ r.status = "PENDING" => computed = "PENDING"
            /\ r.status = "CANCELLED" => computed = "CANCELLED"
            /\ r.status = "CONFIRMED" =>
                  /\ t < r.startTime => computed = "CONFIRMED"
                  /\ (r.startTime < t /\ t < r.endTime) => computed = "IN_PROGRESS"
                  /\ t > r.endTime => computed = "COMPLETED"

ConfirmedReadInsideWindow ==
    \E i \in ReservationIds :
        /\ reservations[i].status = "CONFIRMED"
        /\ reservations[i].startTime < now
        /\ now < reservations[i].endTime
        /\ computeReservationStatus(reservations[i], now) = "IN_PROGRESS"

EffectiveEquipmentStatus ==
    \A e \in DOMAIN equipment : \A t \in Instants :
        LET item == WithReservationLinks(equipment, reservations, e)
            computed == computeEquipmentStatus(item, t)
            inUse == \E i \in ReservationIds :
                        /\ e \in Range(reservations[i].links)
                        /\ reservations[i].status = "CONFIRMED"
                        /\ reservations[i].startTime <= t
                        /\ t <= reservations[i].endTime
        IN  /\ equipment[e].status \in {"MAINTENANCE", "OUT_OF_ORDER"} =>
                  computed = equipment[e].status
            /\ equipment[e].status = "OPERATIONAL" =>
                  /\ computed = "IN_USE" <=> inUse
                  /\ computed = "AVAILABLE" <=> ~inUse

AvailableUnderPendingInUseUnderConfirmed ==
    /\ equipment[1].status = "OPERATIONAL"
    /\ computeEquipmentStatus(WithReservationLinks(equipment, reservations, 1), now) = "IN_USE"
    /\ \E i \in ReservationIds :
          /\ reservations[i].status \in {"PENDING", "CANCELLED"}
          /\ 1 \in Range(reservations[i].links)
          /\ reservations[i].startTime <= now
          /\ now <= reservations[i].endTime
    /\ equipment[2].status = "OPERATIONAL"
    /\ computeEquipmentStatus(WithReservationLinks(equipment, reservations, 2), now) = "AVAILABLE"

---------------------------------------------------------------------------
(* Utilization reports: reads of the store over a window that ends now *)

MsPerDay == 24 * MsPerHour
CountedStatuses == {"CONFIRMED", "IN_PROGRESS", "COMPLETED"}
ReportDays == {1, 2}

(* startDate.setDate(getDate() - days); startDate.setHours(0, 0, 0, 0) *)
ReportStart(t, days) ==
    LET shifted == t - days * MsPerDay
    IN  shifted - (shifted % MsPerDay)

(* the filter without its third clause, the reservation spanning the range *)
InReportRange_NoSpan(r, startDate, endDate) ==
    \/ r.startTime >= startDate /\ r.startTime <= endDate
    \/ r.endTime >= startDate /\ r.endTime <= endDate

(* the three-way OR of the reservation filters *)
InReportRange(r, startDate, endDate) ==
    \/ r.startTime >= startDate /\ r.startTime <= endDate
    \/ r.endTime >= startDate /\ r.endTime <= endDate
    \/ r.startTime <= startDate /\ r.endTime >= endDate

clampedStartTime(r, startDate) ==
    IF r.startTime < startDate THEN startDate ELSE r.startTime

(* the end of the reservation taken as it is stored *)
clampedEndTime_Stored(r, endDate) == r.endTime

clampedEndTime(r, endDate) ==
    IF r.endTime > endDate THEN endDate ELSE r.endTime

DurationMinutes(r, startDate, endDate) ==
    (clampedEndTime(r, endDate) - clampedStartTime(r, startDate)) \div MsPerMinute

Counts(r, t) == computeReservationStatus(r, t) \in CountedStatuses

RECURSIVE SumOver(_, _)
SumOver(f, S) ==
    IF S = {} THEN 0
    ELSE LET x == CHOOSE y \in S : TRUE
         IN  f[x] + SumOver(f, S \ {x})

(* minutes of the reservations of ids that satisfy the status filter *)
CountedMinutes(res, ids, startDate, endDate) ==
    SumOver([i \in ids |-> DurationMinutes(res[i], startDate, endDate)],
            {i \in ids : Counts(res[i], endDate)})

LinkedInRange(res, e, startDate, endDate) ==
    {i \in DOMAIN res : /\ e \in Range(res[i].links)
                        /\ InReportRange(res[i], startDate, endDate)}

(* GET /api/equipment/:id/utilization *)
EquipmentReservedMinutes(res, e, t, days) ==
    CountedMinutes(res, LinkedInRange(res, e, ReportStart(t, days), t), ReportStart(t, days), t)

UtilizationTotalMinutes(days) == days * 24 * 60

(* Math.round(p * 100) / 100 of p = reserved / total * 100, in hundredths *)
RoundedPercentage(reservedMinutes, totalMinutes) ==
    IF totalMinutes > 0
    THEN (2 * reservedMinutes * 100 * 100 + totalMinutes) \div (2 * totalMinutes)
    ELSE 0

utilizationPercentage(res, e, t, days) ==
    RoundedPercentage(EquipmentReservedMinutes(res, e, t, days), UtilizationTotalMinutes(days))

(* the equipment report: every item, totals summed over the items *)
EquipmentReportReservedMinutes(eq, res, t, days) ==
    SumOver([e \in DOMAIN eq |-> EquipmentReservedMinutes(res, e, t, days)], DOMAIN eq)

(* the lab report: the items of one lab *)
LabReservedMinutes(eq, res, labId, t, days) ==
    SumOver([e \in DOMAIN eq |-> EquipmentReservedMinutes(res, e, t, days)],
            {e \in DOMAIN eq : eq[e].labId = labId})

ReservedInRange(res, user, startDate, endDate) ==
    {i \in DOMAIN res : /\ res[i].userId = user
                        /\ InReportRange(res[i], startDate, endDate)}

(* the all-students report: per student, then summed *)
StudentTimeReservedMinutes(res, user, t, days) ==
    CountedMinutes(res, ReservedInRange(res, user, ReportStart(t, days), t),
                   ReportStart(t, days), t)

StudentsTotalTimeReservedMinutes(res, t, days) ==
    SumOver([u \in Users |-> StudentTimeReservedMinutes(res, u, t, days)],
            {u \in Users : role(u) = "STUDENT"})

(* a user's own report: every reservation of the range is summed *)
OwnTotalTimeReservedMinutes(res, user, t, days) ==
    LET ids == ReservedInRange(res, user, ReportStart(t, days), t)
    IN  SumOver([i \in ids |-> DurationMinutes(res[i], ReportStart(t, days), t)], ids)

(* the store without the reservations that are PENDING or CANCELLED *)
WithoutUnconfirmed(res) == SelectSeq(res, LAMBDA r : r.status \notin {"PENDING", "CANCELLED"})

(* C19: in every report scope the aggregate minutes are the clamped        *)
(* durations of the reservations whose effective status is CONFIRMED,      *)
(* IN_PROGRESS or COMPLETED: a PENDING or CANCELLED reservation adds       *)
(* nothing, so each figure is the one of the store without them.           *)
OnlyUtilizedTimeCounts ==
    \A days \in ReportDays :
        LET utilized == WithoutUnconfirmed(reservations)
        IN  /\ \A e \in DOMAIN equipment :
                  EquipmentReservedMinutes(reservations, e, now, days)
                      = EquipmentReservedMinutes(utilized, e, now, days)
            /\ EquipmentReportReservedMinutes(equipment, reservations, now, days)
                   = EquipmentReportReservedMinutes(equipment, utilized, now, days)
            /\ \A l \in {equipment[e].labId : e \in DOMAIN equipment} :
                  LabReservedMinutes(equipment, reservations, l, now, days)
                      = LabReservedMinutes(equipment, utilized, l, now, days)
            /\ StudentsTotalTimeReservedMinutes(reservations, now, days)
                   = StudentsTotalTimeReservedMinutes(utilized, now, days)
            /\ \A u \in Users :
                  OwnTotalTimeReservedMinutes(reservations, u, now, days)
                      = OwnTotalTimeReservedMinutes(utilized, u, now, days)

(* C20: the utilization percentage of an item is its reserved minutes      *)
(* divided by the number of minutes of the report window [startDate,       *)
(* endDate], times 100, rounded to two decimals.                           *)
PercentageOfReportWindow ==
    \A days \in ReportDays : \A e \in DOMAIN equipment :
        LET windowMinutes == (now - ReportStart(now, days)) \div MsPerMinute
        IN  utilizationPercentage(reservations, e, now, days)
                = RoundedPercentage(EquipmentReservedMinutes(reservations, e, now, days),
                                    windowMinutes)

---------------------------------------------------------------------------
(* Properties of the report window *)

(* the windows a report is asked for: start_date and end_date given, with *)
(* start before end, or the last days up to now                           *)
ReportWindows ==
    {w \in Instants \X Instants : w[1] < w[2]}
        \cup {<<ReportStart(now, days), now>> : days \in ReportDays}

InclusiveOverlap(r, reportStart, reportEnd) ==
    r.startTime <= reportEnd /\ r.endTime >= reportStart

(* C21: a report timeline holds exactly the reservations of its scope with *)
(* start <= reportEnd and end >= reportStart: for every reservation with   *)
(* start < end the three-clause store filter selects it iff that           *)
(* inclusive-overlap test holds.                                           *)
TimelineIsInclusiveOverlap ==
    \A w \in ReportWindows : \A e \in DOMAIN equipment :
        /\ LinkedInRange(reservations, e, w[1], w[2])
               = {i \in ReservationIds :
                     /\ e \in Range(reservations[i].links)
                     /\ InclusiveOverlap(reservations[i], w[1], w[2])}
        /\ \A i \in ReservationIds :
              reservations[i].startTime < reservations[i].endTime =>
                  (InReportRange(reservations[i], w[1], w[2])
                       <=> InclusiveOverlap(reservations[i], w[1], w[2]))

SpanningReservationSelected ==
    \E i \in ReservationIds :
        /\ reservations[i].startTime < now - 1
        /\ reservations[i].endTime > now + 1
        /\ <<now - 1, now + 1>> \in ReportWindows
        /\ i \in LinkedInRange(reservations, 1, now - 1, now + 1)

---------------------------------------------------------------------------
(* PUT /api/equipment/:id and DELETE /api/equipment/:id *)

SeedLabs == {SeedEquipment[e].labId : e \in DOMAIN SeedEquipment}
UnknownLab == 9
Instructor == 2

checkUserPermissions(user) ==
    IF role(user) \notin {"ADMIN", "INSTRUCTOR"}
    THEN Error(403, "Insufficient permissions")
    ELSE Pass

UpdateResponse(user, e, labId, eq, res) ==
    IF user = NoUser THEN Error(401, "Unauthorized")
    ELSE IF checkUserPermissions(user) # Pass THEN checkUserPermissions(user)
    ELSE IF e \notin DOMAIN eq THEN Error(404, "Equipment not found")
    ELSE IF labId \notin SeedLabs THEN Error(400, "Lab not found")
    ELSE Ok

UpdateEquipment(user, e, labId) ==
    LET resp == UpdateResponse(user, e, labId, equipment, reservations)
    IN  /\ equipment' = IF resp = Ok THEN [equipment EXCEPT ![e].labId = labId]
                                     ELSE equipment
        /\ last' = Handled("update", user, e, NoBody, resp, IF resp = Ok THEN 1 ELSE 0, "NONE")
        /\ UNCHANGED <<now, reservations, inflight>>

ActiveLinks(res, e) ==
    {i \in DOMAIN res : e \in Range(res[i].links) /\ res[i].status \in ActiveStatuses}

(* only CONFIRMED reservations keep an item from being deleted *)
DeleteResponse_ConfirmedOnly(user, e, eq, res) ==
    IF user = NoUser THEN Error(401, "Unauthorized")
    ELSE IF checkUserPermissions(user) # Pass THEN checkUserPermissions(user)
    ELSE IF e \notin DOMAIN eq THEN Error(404, "Equipment not found")
    ELSE IF \E i \in DOMAIN res : e \in Range(res[i].links) /\ res[i].status = "CONFIRMED"
         THEN Error(400, "Cannot delete equipment with active reservations")
    ELSE Ok

DeleteResponse(user, e, eq, res) ==
    IF user = NoUser THEN Error(401, "Unauthorized")
    ELSE IF checkUserPermissions(user) # Pass THEN checkUserPermissions(user)
    ELSE IF e \notin DOMAIN eq THEN Error(404, "Equipment not found")
    ELSE IF ActiveLinks(res, e) # {}
         THEN Error(400, "Cannot delete equipment with active reservations")
    ELSE Ok

(* the links of the deleted item go with it *)
WithoutLinksTo(res, e) ==
    [i \in DOMAIN res |-> [res[i] EXCEPT !.links = SelectSeq(@, LAMBDA x : x # e)]]

(* prisma.equipment.delete: the links the item still has, all of them to    *)
(* reservations that are not active, are either deleted with it or make the *)
(* delete fail, as the schema's referential action decides                  *)
DeleteEquipment(user, e) ==
    LET resp == DeleteResponse(user, e, equipment, reservations)
        linked == \E i \in DOMAIN reservations : e \in Range(reservations[i].links)
    IN  \/ /\ resp = Ok
           /\ equipment' = [x \in DOMAIN equipment \ {e} |-> equipment[x]]
           /\ reservations' = WithoutLinksTo(reservations, e)
           /\ last' = Handled("delete", user, e, NoBody, resp, 1, "NONE")
           /\ UNCHANGED <<now, inflight>>
        \/ /\ resp = Ok
           /\ linked
           /\ last' = Handled("delete", user, e, NoBody,
                              Error(500, "Failed to delete equipment"), 0, "NONE")
           /\ UNCHANGED <<now, equipment, reservations, inflight>>
        \/ /\ resp # Ok
           /\ last' = Handled("delete", user, e, NoBody, resp, 0, "NONE")
           /\ UNCHANGED <<now, equipment, reservations, inflight>>

---------------------------------------------------------------------------
(* Items 1 and 2 booked alone or together while the inventory is edited *)

InventoryBodies ==
    {Body(ids, BlockTime(1), BlockTime(2), "lab work") : ids \in {<<1>>, <<1, 2>>}}

NextInventory ==
    \/ \E b \in InventoryBodies : CreateReservation(Student, b)
    \/ \E id \in 1..MaxRes : ConfirmReservation(Admin, id)
    \/ \E id \in 1..MaxRes : CancelReservation(Admin, id)
    \/ \E u \in {Student, Instructor}, e \in {1, 2}, l \in SeedLabs \cup {UnknownLab} :
          UpdateEquipment(u, e, l)
    \/ \E u \in {Student, Instructor}, e \in {1, 2} : DeleteEquipment(u, e)

SpecInventory == Init /\ [][NextInventory]_vars

(* C22: in every state reached by create and equipment-update operations, *)
(* reassigning an item to another lab included, all equipment linked to   *)
(* one reservation belongs to the same lab.                               *)
LinkedEquipmentInOneLab ==
    \A i \in ReservationIds : Cardinality(Labs(reservations[i])) <= 1

(* C23: a delete by a permitted user of an existing item succeeds only     *)
(* when no reservation linked to the item has stored status PENDING or     *)
(* CONFIRMED; otherwise it is answered 400 and the equipment rows and the  *)
(* reservation links are unchanged.                                        *)
DeleteOnlyWithoutActiveLinks ==
    [][(/\ last'.op = "delete"
        /\ checkUserPermissions(last'.user) = Pass
        /\ last'.id \in DOMAIN equipment)
       => LET booked == \E i \in ReservationIds :
                           /\ last'.id \in Range(reservations[i].links)
                           /\ Booked(reservations[i])
          IN  /\ last'.code = 200 => ~booked
              /\ booked => /\ last'.code = 400
                           /\ equipment' = equipment
                           /\ reservations' = reservations]_vars

DeleteRefusedForPending ==
    /\ last.op = "delete"
    /\ last.code = 400
    /\ last.id \in DOMAIN equipment
    /\ \E i \in ReservationIds :
          /\ last.id \in Range(reservations[i].links)
          /\ reservations[i].status = "PENDING"

---------------------------------------------------------------------------
(* The two conflict queries of one create *)

RequestBodies == RaceBodies \cup BookingBodies \cup InventoryBodies

(* on one store snapshot, a request the lab query lets through is let *)
(* through by the equipment query                                     *)
EquipmentCheckImplied ==
    \A b \in RequestBodies :
        (/\ ResolveEquipment(equipment, b.equipmentIds) = Pass
         /\ CheckLab(equipment, reservations, RequestLab(equipment, b.equipmentIds), b) = Pass)
        => CheckEquipment(reservations, b) = Pass

(* C24: the equipment-level conflict check is implied by the lab-level     *)
(* check in every reachable store state and for every request, so no       *)
(* create is ever answered with the second 409, 'One or more equipment     *)
(* items are already reserved for the selected time'.                      *)
SecondConflictNeverReturned ==
    /\ EquipmentCheckImplied
    /\ \A p \in Procs :
          inflight[p].pc = "done" =>
              inflight[p].msg
                  # "One or more equipment items are already reserved for the selected time"
    /\ last.msg # "One or more equipment items are already reserved for the selected time"

---------------------------------------------------------------------------
(* The frame of confirm and cancel *)

SameButStatus(a, b) == [a EXCEPT !.status = b.status] = b

(* C25: confirm and cancel change nothing but the stored status of their    *)
(* target: its window, owner, purpose and links and every other reservation *)
(* stay as they were; a call writes at most once, and a call that ends in   *)
(* 404, 403 or 400 (or 401) does not write.                                 *)
ConfirmCancelFrame ==
    [][last'.op \in {"confirm", "cancel"} =>
          /\ DOMAIN reservations' = DOMAIN reservations
          /\ equipment' = equipment
          /\ \A i \in ReservationIds :
                IF i = last'.id
                THEN SameButStatus(reservations[i], reservations'[i])
                ELSE reservations'[i] = reservations[i]
          /\ last'.writes <= 1
          /\ last'.code # 200 => (last'.writes = 0 /\ reservations' = reservations)]_vars

ConfirmedBesideAnother ==
    /\ last.op = "confirm"
    /\ last.code = 200
    /\ last.prior = "PENDING"
    /\ \E i \in ReservationIds :
          /\ i # last.id
          /\ reservations[i].userId = Target.userId
          /\ reservations[i].status # "CONFIRMED"

---------------------------------------------------------------------------
(* Confirm and cancel as two store operations each: findUnique, then update *)

(* findUnique and the checks made on the row it returned *)
StatusBegin(p, op, user, id) ==
    LET resp == IF op = "confirm" THEN ConfirmResponse(user, id, now, reservations)
                                  ELSE CancelResponse(user, id, now, reservations)
        started == [inflight EXCEPT ![p].op = op, ![p].user = user, ![p].id = id,
                                    ![p].prior = StoredStatus(reservations, id)]
    IN  /\ inflight[p].pc = "idle"
        /\ inflight' = IF resp # Ok
                       THEN [started EXCEPT ![p].pc = "done", ![p].code = resp.code,
                                            ![p].msg = resp.msg]
                       ELSE [started EXCEPT ![p].pc = "update"]
        /\ UNCHANGED <<now, equipment, reservations, last>>

(* reservation.update by id, whatever the row holds by now *)
StatusUpdate(p) ==
    /\ inflight[p].pc = "update"
    /\ reservations' = UpdateStatus(reservations, inflight[p].id,
                                    IF inflight[p].op = "confirm" THEN "CONFIRMED"
                                                                  ELSE "CANCELLED")
    /\ inflight' = Finish(p, Ok)
    /\ UNCHANGED <<now, equipment, last>>

NextStatusRace ==
    \/ \E b \in LifecycleBodies : CreateReservation(Student, b)
    \/ \E p \in Procs, id \in 1..MaxRes : StatusBegin(p, "confirm", Admin, id)
    \/ \E p \in Procs, u \in {Student, Instructor}, id \in 1..MaxRes :
          StatusBegin(p, "cancel", u, id)
    \/ \E p \in Procs : StatusUpdate(p)
    \/ Tick

SpecStatusRace == Init /\ [][NextStatusRace]_vars

(* C26: when a confirm and a cancel of the same PENDING reservation run    *)
(* concurrently, each reading the row and then writing its status, a       *)
(* cancel that returned success is not undone: once both have finished the *)
(* stored status is CANCELLED, not CONFIRMED.                              *)
ConcurrentCancelWins ==
    \A p \in Procs : \A q \in Procs :
        (/\ inflight[p].op = "cancel"
         /\ inflight[q].op = "confirm"
         /\ inflight[p].id = inflight[q].id
         /\ inflight[p].prior = "PENDING"
         /\ inflight[q].prior = "PENDING"
         /\ inflight[p].pc = "done"
         /\ inflight[q].pc = "done"
         /\ inflight[p].code = 200)
        => reservations[inflight[p].id].status = "CANCELLED"

---------------------------------------------------------------------------
(* Effective statuses across the reservations of a lab *)

InProgress(r, t) == computeReservationStatus(r, t) = "IN_PROGRESS"

(* C27: at every instant, in every store reached by sequential create,     *)
(* confirm and cancel calls, at most one reservation per lab has effective *)
(* status IN_PROGRESS; two CONFIRMED back-to-back reservations of a lab    *)
(* are never both IN_PROGRESS at the instant one ends and the next starts. *)
OneInProgressPerLab ==
    \A t \in Instants : \A i \in ReservationIds : \A j \in ReservationIds :
        (/\ i # j
         /\ Labs(reservations[i]) \cap Labs(reservations[j]) # {}
         /\ InProgress(reservations[i], t))
        => ~InProgress(reservations[j], t)

---------------------------------------------------------------------------
(* The sequential service under a clock that keeps running *)

SpecClock == Spec /\ WF_vars(Tick)

Rank(status) ==
    IF status = "CONFIRMED" THEN 1 ELSE IF status = "IN_PROGRESS" THEN 2 ELSE 3

StaysConfirmed(i) ==
    /\ i \in DOMAIN reservations
    /\ reservations[i].status = "CONFIRMED"

Completed(i) ==
    /\ i \in DOMAIN reservations
    /\ computeReservationStatus(reservations[i], now) = "COMPLETED"

(* C28: for a reservation stored CONFIRMED and never changed again, the   *)
(* effective status only moves forward as now advances (CONFIRMED, then   *)
(* IN_PROGRESS, then COMPLETED), it eventually is COMPLETED and stays so  *)
(* forever, and the step that moves it writes nothing to the store.       *)
CompletionIsComputed ==
    /\ [][\A i \in ReservationIds :
            (reservations[i].status = "CONFIRMED" /\ reservations'[i].status = "CONFIRMED")
            => LET before == computeReservationStatus(reservations[i], now)
                   after == computeReservationStatus(reservations'[i], now')
               IN  /\ Rank(before) <= Rank(after)
                   /\ before # after => reservations' = reservations]_vars
    /\ \A i \in 1..MaxRes : <>[]StaysConfirmed(i) => <>[]Completed(i)

CompletedWhileStoredConfirmed ==
    \E i \in ReservationIds :
        /\ reservations[i].status = "CONFIRMED"
        /\ now > reservations[i].endTime
        /\ computeReservationStatus(reservations[i], now) = "COMPLETED"
        /\ last = NoRequest

(* C29: every timeline entry of a utilization report has its clamped start *)
(* and clamped end inside the report window, in order: reportStart <=      *)
(* clampedStart <= clampedEnd <= reportEnd, so no reservation contributes  *)
(* a negative duration to an aggregate.                                    *)
TimelineEntriesInsideWindow ==
    \A w \in ReportWindows : \A e \in DOMAIN equipment :
        \A i \in LinkedInRange(reservations, e, w[1], w[2]) :
            LET r == reservations[i]
            IN  /\ w[1] <= clampedStartTime(r, w[1])
                /\ clampedStartTime(r, w[1]) <= clampedEndTime(r, w[2])
                /\ clampedEndTime(r, w[2]) <= w[2]
                /\ DurationMinutes(r, w[1], w[2]) >= 0

EntryClampedAtReportEnd ==
    \E days \in ReportDays :
        \E i \in LinkedInRange(reservations, 1, ReportStart(now, days), now) :
            /\ reservations[i].startTime < now
            /\ reservations[i].endTime > now
            /\ clampedEndTime(reservations[i], now) = now
            /\ DurationMinutes(reservations[i], ReportStart(now, days), now) > 0

(* C30: the two status resolvers agree at every instant: for OPERATIONAL   *)
(* equipment computeEquipmentStatus returns IN_USE iff at least one        *)
(* reservation linked to the item has computeReservationStatus equal to    *)
(* IN_PROGRESS at the same instant, and AVAILABLE iff none has.            *)
ResolversAgree ==
    \A e \in DOMAIN equipment : \A t \in Instants :
        equipment[e].status = "OPERATIONAL" =>
            LET item == WithReservationLinks(equipment, reservations, e)
                busy == \E r \in item.reservationLinks : InProgress(r, t)
            IN  /\ computeEquipmentStatus(item, t) = "IN_USE" <=> busy
                /\ computeEquipmentStatus(item, t) = "AVAILABLE" <=> ~busy

InUseAtEndOfReservation ==
    /\ equipment[1].status = "OPERATIONAL"
    /\ \E i \in ReservationIds :
          /\ 1 \in Range(reservations[i].links)
          /\ now = reservations[i].endTime
          /\ InProgress(reservations[i], now)
    /\ computeEquipmentStatus(WithReservationLinks(equipment, reservations, 1), now) = "IN_USE"

====
